---- MODULE Spec2Model ----
(***************************************************************************)
(* GSD Auto-Chain plugin (gsd-opencode/plugins/gsd-auto-chain.ts).         *)
(*                                                                         *)
(* Texts are sequences of one-character strings, so that includes,         *)
(* startsWith, trim, replace and the regular expressions of                *)
(* extractNextCommand are computed position by position as the JavaScript  *)
(* engine computes them.  Positions are 1-based: JavaScript's index k is   *)
(* position k + 1, and "not found" (-1) is position 0.                     *)
(*                                                                         *)
(* Each element of Procs is one loaded plugin instance (one host process)  *)
(* running one event handler at a time.  The instances share the files     *)
(* under the user's home directory, and their file-system calls            *)
(* interleave call by call.                                                *)
(***************************************************************************)
EXTENDS Integers, Sequences, FiniteSets, TLC

\* ------------------------------------------------------------------ bounds

\* Number of loaded plugin instances.
NumProcs == 2
\* Number of session.created / session.idle signals the host delivers.
MaxSignals == 4
\* Number of clock advances.
MaxTicks == 1
\* Number of session.idle signals in a run that follows the handling step by
\* step.
MaxTriggers == 1

Procs == 1..NumProcs

\* ------------------------------------------------------------ text basics

\* The characters outside ASCII that the source names, one atom each.
EmDash == "U+2014"
ArrowBlack == "U+25B6"
ArrowPointer == "U+25BA"
BoxHeavy == "U+2501"
\* The back quote, which the module's own syntax reserves.
BackQuote == "U+0060"

\* null and the empty string, which every test of the source (!x, x || y)
\* treats alike
Null == <<>>

Min(S) == CHOOSE x \in S : \A y \in S : x <= y
Max(S) == CHOOSE x \in S : \A y \in S : x >= y

LowerLetters ==
  <<"a","b","c","d","e","f","g","h","i","j","k","l","m",
    "n","o","p","q","r","s","t","u","v","w","x","y","z">>
UpperLetters ==
  <<"A","B","C","D","E","F","G","H","I","J","K","L","M",
    "N","O","P","Q","R","S","T","U","V","W","X","Y","Z">>
Digits == {"0","1","2","3","4","5","6","7","8","9"}

\* String.prototype.toLowerCase, one character
ToLowerChar(c) ==
  IF \E k \in 1..26 : UpperLetters[k] = c
  THEN LowerLetters[CHOOSE k \in 1..26 : UpperLetters[k] = c]
  ELSE c

ToLowerCase(s) == [k \in 1..Len(s) |-> ToLowerChar(s[k])]

\* the regular-expression classes the source uses
IsSpace(c) == c \in {" ", "\n", "\t", "\r"}              \* \s
IsNonSpace(c) == ~IsSpace(c)                             \* \S
IsDigit(c) == c \in Digits                               \* \d
IsLowerDash(c) ==                                        \* [a-z-]
  c = "-" \/ c \in {LowerLetters[k] : k \in 1..26}
IsLowerDigitDash(c) == IsLowerDash(c) \/ IsDigit(c)      \* [a-z0-9-]
IsAlnumDashI(c) == IsLowerDigitDash(ToLowerChar(c))      \* [a-z0-9-] under /i
IsColonSpace(c) == c = ":" \/ IsSpace(c)                 \* [:\s]
IsNotNewline(c) == c # "\n"                              \* [^\n]

\* t occurs in s at position i
MatchAt(s, i, t) ==
  /\ i >= 1
  /\ i + Len(t) - 1 <= Len(s)
  /\ \A k \in 1..Len(t) : s[i + k - 1] = t[k]

\* t occurs in s at position i, letter case ignored (the /i flag)
MatchAtI(s, i, t) ==
  /\ i >= 1
  /\ i + Len(t) - 1 <= Len(s)
  /\ \A k \in 1..Len(t) : ToLowerChar(s[i + k - 1]) = ToLowerChar(t[k])

\* String.prototype.indexOf: the first position of t in s, 0 when there is none
IndexOf(s, t) ==
  LET I == {i \in 1..(Len(s) - Len(t) + 1) : MatchAt(s, i, t)}
  IN  IF I = {} THEN 0 ELSE Min(I)

\* String.prototype.includes
Includes(s, t) == IndexOf(s, t) # 0

\* String.prototype.startsWith
StartsWith(s, t) == MatchAt(s, 1, t)

\* the last position of the longest run of characters of class C that starts
\* at position i (i - 1 when s[i] is not in the class): a greedy C*
RunEnd(s, i, C(_)) ==
  LET F == {k \in i..Len(s) : ~C(s[k])}
  IN  IF F = {} THEN Len(s) ELSE Min(F) - 1

\* String.prototype.trim
Trim(s) ==
  LET K == {k \in 1..Len(s) : ~IsSpace(s[k])}
  IN  IF K = {} THEN <<>> ELSE SubSeq(s, Min(K), Max(K))

\* s.split(/\s+<em dash>\s+/)[0]: the text before the first white space,
\* em dash, white space
BeforeDash(s) ==
  LET M == {i \in 1..Len(s) :
              /\ IsSpace(s[i])
              /\ LET w == RunEnd(s, i, IsSpace)
                 IN  /\ w + 2 <= Len(s)
                     /\ s[w + 1] = EmDash
                     /\ IsSpace(s[w + 2])}
  IN  IF M = {} THEN s ELSE SubSeq(s, 1, Min(M) - 1)

\* ------------------------------------------------------- literal strings

GSD == <<"/","g","s","d">>
NextUpText == <<"N","e","x","t"," ","U","p">>
NextUpLower == <<"n","e","x","t"," ","u","p">>
HashHash == <<"#","#">>
AlsoAvailable == <<"A","l","s","o"," ","a","v","a","i","l","a","b","l","e">>
NoChainDirective ==
  <<"<","!","-","-"," ","g","s","d",":","n","o","-","c","h","a","i","n"," ","-","-",">">>
SkipDiscussDirective ==
  <<"<","!","-","-"," ","g","s","d",":","s","k","i","p","-","d","i","s","c","u","s","s"," ","-","-",">">>
UseDiscussDirective ==
  <<"<","!","-","-"," ","g","s","d",":","u","s","e","-","d","i","s","c","u","s","s"," ","-","-",">">>
CmdDiscussPhase ==
  <<"/","g","s","d","-","d","i","s","c","u","s","s","-","p","h","a","s","e">>
CmdPlanPhase ==
  <<"/","g","s","d","-","p","l","a","n","-","p","h","a","s","e">>
CmdExecutePhase ==
  <<"/","g","s","d","-","e","x","e","c","u","t","e","-","p","h","a","s","e">>
CmdVerifyWork ==
  <<"/","g","s","d","-","v","e","r","i","f","y","-","w","o","r","k">>
CmdNewProject ==
  <<"/","g","s","d","-","n","e","w","-","p","r","o","j","e","c","t">>
CmdNewMilestone ==
  <<"/","g","s","d","-","n","e","w","-","m","i","l","e","s","t","o","n","e">>

\* ------------------------------------------------- extractNextCommand

\* A regular-expression match is a one-element tuple holding the matched text,
\* and no match is the empty tuple.
NoMatch == <<>>

\* the position of the first element of I, 0 when I is empty
First(I) == IF I = {} THEN 0 ELSE Min(I)

\* the lazy [\s\S]*? then the lookahead (?=\n(?:stops)|$): the first position
\* j >= from at which the text ends or a line break is followed by one of
\* stops; the section ends right before j
SectionStop(s, from, stops) ==
  Min({j \in from..(Len(s) + 1) :
         \/ j = Len(s) + 1
         \/ /\ s[j] = "\n"
            /\ \E t \in stops : MatchAt(s, j + 1, t)})

HeadingStops == {HashHash, <<BoxHeavy>>, AlsoAvailable}
BareStops == {<<"\n">>, HashHash, <<BoxHeavy>>}

\* marks\s*Next Up at position i, where s[i] is one of marks: the position
\* after "Next Up", 0 when it does not match
AfterMarked(s, i, marks) ==
  IF i >= 1 /\ i <= Len(s) /\ s[i] \in marks
  THEN LET n == RunEnd(s, i + 1, IsSpace) + 1
       IN  IF MatchAt(s, n, NextUpText) THEN n + Len(NextUpText) ELSE 0
  ELSE 0

\* (?:##\s*)?[marks]\s*Next Up at position i: the position after "Next Up"
AfterDecorated(s, i, marks) ==
  IF MatchAt(s, i, HashHash)
     /\ AfterMarked(s, RunEnd(s, i + 2, IsSpace) + 1, marks) # 0
  THEN AfterMarked(s, RunEnd(s, i + 2, IsSpace) + 1, marks)
  ELSE AfterMarked(s, i, marks)

\* ##\s*Next Up at position i: the position after "Next Up"
AfterHeading(s, i) ==
  IF MatchAt(s, i, HashHash)
     /\ MatchAt(s, RunEnd(s, i + 2, IsSpace) + 1, NextUpText)
  THEN RunEnd(s, i + 2, IsSpace) + 1 + Len(NextUpText)
  ELSE 0

\* Next Up[:\s]*\n under /i at position i: the position after the line break
\* the greedy [:\s]* gives back, which is the last one of its run
AfterBare(s, i) ==
  IF MatchAtI(s, i, NextUpText)
  THEN LET r == RunEnd(s, i + Len(NextUpText), IsColonSpace)
           N == {k \in (i + Len(NextUpText))..r : s[k] = "\n"}
       IN  IF N = {} THEN 0 ELSE Max(N) + 1
  ELSE 0

\* patterns 1 and 2 of nextUpPatterns, with the mark characters of each
DecoratedSection(s, marks) ==
  LET i == First({k \in 1..Len(s) : AfterDecorated(s, k, marks) # 0})
  IN  IF i = 0 THEN NoMatch
      ELSE <<SubSeq(s, i, SectionStop(s, AfterDecorated(s, i, marks), HeadingStops) - 1)>>

\* pattern 3 of nextUpPatterns
HeadingSection(s) ==
  LET i == First({k \in 1..Len(s) : AfterHeading(s, k) # 0})
  IN  IF i = 0 THEN NoMatch
      ELSE <<SubSeq(s, i, SectionStop(s, AfterHeading(s, i), HeadingStops) - 1)>>

\* pattern 4 of nextUpPatterns
BareSection(s) ==
  LET i == First({k \in 1..Len(s) : AfterBare(s, k) # 0})
  IN  IF i = 0 THEN NoMatch
      ELSE <<SubSeq(s, i, SectionStop(s, AfterBare(s, i), BareStops) - 1)>>

\* one turn of a loop over patterns: `if (match) break`
OrElse(match, others) == IF match # NoMatch THEN match ELSE others

\* the loop over nextUpPatterns: the first pattern that matches
NextUpSection(s) ==
  OrElse(DecoratedSection(s, {ArrowPointer, ArrowBlack}),
    OrElse(DecoratedSection(s, {">"}),
      OrElse(HeadingSection(s), BareSection(s))))

\* \/gsd then a greedy non-empty run of class C at position i: the last
\* position of the run, 0 when it does not match
HeadEnd(s, i, C(_)) ==
  IF MatchAt(s, i, GSD) /\ RunEnd(s, i + 4, C) >= i + 4
  THEN RunEnd(s, i + 4, C)
  ELSE 0

\* \/gsd then the run under /i
HeadEndI(s, i) ==
  IF MatchAtI(s, i, GSD) /\ RunEnd(s, i + 4, IsAlnumDashI) >= i + 4
  THEN RunEnd(s, i + 4, IsAlnumDashI)
  ELSE 0

\* the greedy (?:\s+\S+)* after position e: the last position it reaches
WordsEnd(s, e) ==
  IF e < Len(s) /\ IsSpace(s[e + 1])
     /\ \E k \in (e + 2)..Len(s) : ~IsSpace(s[k])
  THEN Max({k \in (e + 2)..Len(s) : ~IsSpace(s[k])})
  ELSE e

\* the optional (?:\s+\d+)? after position e: the last position it reaches
NumberEnd(s, e) ==
  LET w == RunEnd(s, e + 1, IsSpace)
      d == RunEnd(s, w + 1, IsDigit)
  IN  IF w >= e + 1 /\ d >= w + 1 THEN d ELSE e

\* the optional (?:\s+[^\n]+)? after position e: the last position it reaches;
\* when the white space runs to the end of the text, \s+ gives characters back
\* until [^\n]+ finds one that is no line break
RestOfLineEnd(s, e) ==
  LET w == RunEnd(s, e + 1, IsSpace)
      B == {k \in (e + 2)..w : s[k] # "\n"}
  IN  IF w < e + 1 THEN e
      ELSE IF w < Len(s) THEN RunEnd(s, w + 1, IsNotNewline)
      ELSE IF B = {} THEN e
      ELSE RunEnd(s, Max(B), IsNotNewline)

\* pattern 'backtick' at the back quote at position b: the last position of
\* group 1, 0 when it does not match
BacktickEnd(s, b) ==
  IF b >= 1 /\ b <= Len(s) /\ s[b] = BackQuote /\ HeadEnd(s, b + 1, IsLowerDash) # 0
  THEN LET e == HeadEnd(s, b + 1, IsLowerDash)
           q == First({k \in (e + 1)..Len(s) : s[k] = BackQuote})
       IN  IF q = e + 1 THEN e
           ELSE IF q >= e + 3 /\ IsSpace(s[e + 1]) THEN q - 1
           ELSE 0
  ELSE 0

\* group 1 of each of the five patterns, NoMatch when the pattern fails
BacktickMatch(s) ==
  LET b == First({k \in 1..Len(s) : BacktickEnd(s, k) # 0})
  IN  IF b = 0 THEN NoMatch ELSE <<SubSeq(s, b + 1, BacktickEnd(s, b))>>

LineStartMatch(s) ==
  LET i == First({k \in 1..Len(s) :
                    /\ k = 1 \/ s[k - 1] \in {"\n", "\r"}
                    /\ HeadEnd(s, k, IsLowerDash) # 0})
  IN  IF i = 0 THEN NoMatch
      ELSE <<SubSeq(s, i, WordsEnd(s, HeadEnd(s, i, IsLowerDash)))>>

AnywhereNumMatch(s) ==
  LET i == First({k \in 1..Len(s) : HeadEnd(s, k, IsLowerDash) # 0})
  IN  IF i = 0 THEN NoMatch
      ELSE <<SubSeq(s, i, NumberEnd(s, HeadEnd(s, i, IsLowerDash)))>>

ColonMatch(s) ==
  LET c == First({k \in 1..Len(s) :
                    /\ s[k] = ":"
                    /\ HeadEnd(s, RunEnd(s, k + 1, IsSpace) + 1, IsLowerDash) # 0})
      i == RunEnd(s, c + 1, IsSpace) + 1
  IN  IF c = 0 THEN NoMatch
      ELSE <<SubSeq(s, i, WordsEnd(s, HeadEnd(s, i, IsLowerDash)))>>

AnywhereMatch(s) ==
  LET i == First({k \in 1..Len(s) : HeadEnd(s, k, IsLowerDigitDash) # 0})
  IN  IF i = 0 THEN NoMatch
      ELSE <<SubSeq(s, i, RestOfLineEnd(s, HeadEnd(s, i, IsLowerDigitDash)))>>

\* the loop over patterns: group 1 of the first pattern that matches the section
SectionCommand(section) ==
  OrElse(BacktickMatch(section),
    OrElse(LineStartMatch(section),
      OrElse(AnywhereNumMatch(section),
        OrElse(ColonMatch(section), AnywhereMatch(section)))))

\* match[1].trim().split(/\s+<em dash>\s+/)[0].trim()
CleanCommand(m) == Trim(BeforeDash(Trim(m)))

\* the proximity window of the last-resort scan, in characters
ProximityWindow == 300

\* the last resort with a window that takes the token at its edge
FallbackCommandAtEdge(text) ==
  LET i == First({k \in 1..Len(text) : HeadEndI(text, k) # 0})
      m == SubSeq(text, i, NumberEnd(text, HeadEndI(text, i)))
      nextUpIdx == IndexOf(ToLowerCase(text), NextUpLower)
      cmdIdx == IndexOf(text, m)
  IN  IF i # 0 /\ nextUpIdx # 0 /\ cmdIdx > nextUpIdx
         /\ cmdIdx - nextUpIdx <= ProximityWindow
      THEN m ELSE Null

\* the last resort: the first command-shaped token of the whole text, kept
\* when it starts after "next up" and less than the window after it
FallbackCommand(text) ==
  LET i == First({k \in 1..Len(text) : HeadEndI(text, k) # 0})
      m == SubSeq(text, i, NumberEnd(text, HeadEndI(text, i)))
      nextUpIdx == IndexOf(ToLowerCase(text), NextUpLower)
      cmdIdx == IndexOf(text, m)
  IN  IF i # 0 /\ nextUpIdx # 0 /\ cmdIdx > nextUpIdx
         /\ cmdIdx - nextUpIdx < ProximityWindow
      THEN m ELSE Null

\* what extractNextCommand returns once the loop over patterns has ended with
\* `match`: the cleaned group 1, or the result of the last resort
CommandOfMatch(text, match) ==
  IF match # NoMatch THEN CleanCommand(match[1]) ELSE FallbackCommand(text)

\* extraction without `if (!nextUpMatch) return null`: the command patterns
\* run over the whole text when no section was found
CommandOfSectionOrText(text, nextUpMatch) ==
  IF nextUpMatch = NoMatch THEN CommandOfMatch(text, SectionCommand(text))
  ELSE CommandOfMatch(text, SectionCommand(nextUpMatch[1]))

\* what extractNextCommand returns once the loop over nextUpPatterns has ended
\* with `nextUpMatch`
CommandOfSection(text, nextUpMatch) ==
  IF nextUpMatch = NoMatch THEN Null
  ELSE CommandOfMatch(text, SectionCommand(nextUpMatch[1]))

\* extractNextCommand(content): the command, or Null
extractNextCommand(text) ==
  IF text = <<>> THEN Null ELSE CommandOfSection(text, NextUpSection(text))

\* ------------------------------------------------ assistant texts

\* Scenario A of the specification: a decorated heading, then a quoted command
\* and an explanation after an em dash
TextExecute ==
  <<"#","#"," ",ArrowBlack," ","N","e","x","t"," ","U","p","\n",BackQuote,
    "/","g","s","d","-","e","x","e","c","u","t","e","-","p","h","a","s",
    "e"," ","0","8",BackQuote," ",EmDash," ","r","u","n"," ","i","t">>

\* a suggestion under the no-chain directive
TextNoChain ==
  <<"<","!","-","-"," ","g","s","d",":","n","o","-","c","h","a","i","n",
    " ","-","-",">","\n","#","#"," ",ArrowBlack," ","N","e","x","t"," ",
    "U","p","\n",BackQuote,"/","g","s","d","-","p","l","a","n","-","p",
    "h","a","s","e"," ","3",BackQuote>>

\* the same directive before a suggestion of another command
TextNoChainExecute == NoChainDirective \o <<"\n">> \o TextExecute

\* a suggestion of a command that needs the user
TextVerify ==
  <<"#","#"," ",ArrowBlack," ","N","e","x","t"," ","U","p","\n",BackQuote,
    "/","g","s","d","-","v","e","r","i","f","y","-","w","o","r","k"," ",
    "2",BackQuote>>

\* a suggestion of the discuss step
TextDiscuss ==
  <<"#","#"," ",ArrowBlack," ","N","e","x","t"," ","U","p","\n",BackQuote,
    "/","g","s","d","-","d","i","s","c","u","s","s","-","p","h","a","s",
    "e"," ","3",BackQuote>>

\* no suggestion
TextDone ==
  <<"A","l","l"," ","p","h","a","s","e","s"," ","c","o","m","p","l","e",
    "t","e",".">>

\* ------------------------------------------- suggestions, part by part

\* the opening line of the README: "## <arrow> Next Up"
HeadArrowBlack ==
  <<"#","#"," ",ArrowBlack," ","N","e","x","t"," ","U","p">>

\* The line that opens a suggestion: one for each of nextUpPatterns, with both
\* arrows of the first.
Heads ==
  {HeadArrowBlack,
   <<ArrowPointer," ","N","e","x","t"," ","U","p">>,
   <<">"," ","N","e","x","t"," ","U","p">>,
   <<"#","#"," ","N","e","x","t"," ","U","p">>,
   <<"n","e","x","t"," ","u","p",":">>}

\* opening lines without the phrase "Next Up" in any letter case
OtherHeads ==
  {<<"#","#"," ",ArrowBlack," ","N","e","x","t"," ","S","t","e","p","s">>,
   <<"U","p"," ","n","e","x","t",":">>}

\* a command whose name goes on after the name of one of skipCommands
CmdVerifyWorkflow ==
  <<"/","g","s","d","-","v","e","r","i","f","y","-","w","o","r","k","f","l",
    "o","w">>

\* a command token with its numeric argument
WithArg(name, digits) == name \o <<" ">> \o digits

\* What follows the opening line, and the command token in it: the token with
\* its numeric argument is what the README calls the next command ("Detects
\* the next command (e.g., `/gsd-execute-phase 1`)").
Body(text, token) == [text |-> text, token |-> token]

\* The shapes of `patterns`: quoted with an explanation, quoted alone, quoted
\* with a longer name, alone on a line, on a line before another line, on a
\* line before an explanation, after a colon, inside a sentence; and no token.
Bodies ==
  {Body(<<BackQuote,"/","g","s","d","-","e","x","e","c","u","t","e","-","p",
          "h","a","s","e"," ","0","8",BackQuote," ",EmDash," ","r","u","n",
          " ","i","t">>,
        WithArg(CmdExecutePhase, <<"0", "8">>)),
   Body(<<BackQuote,"/","g","s","d","-","n","e","w","-","m","i","l","e","s",
          "t","o","n","e",BackQuote>>,
        CmdNewMilestone),
   Body(<<BackQuote,"/","g","s","d","-","v","e","r","i","f","y","-","w","o",
          "r","k","f","l","o","w"," ","4",BackQuote>>,
        WithArg(CmdVerifyWorkflow, <<"4">>)),
   Body(<<"/","g","s","d","-","v","e","r","i","f","y","-","w","o","r","k">>,
        CmdVerifyWork),
   Body(<<"/","g","s","d","-","p","l","a","n","-","p","h","a","s","e"," ",
          "3","\n","R","u","n"," ","i","t">>,
        WithArg(CmdPlanPhase, <<"3">>)),
   Body(<<"/","g","s","d","-","d","i","s","c","u","s","s","-","p","h","a",
          "s","e"," ","1","2"," ",EmDash," ","t","a","l","k"," ","i","t",
          " ","o","v","e","r">>,
        WithArg(CmdDiscussPhase, <<"1", "2">>)),
   Body(<<"R","u","n",":"," ","/","g","s","d","-","n","e","w","-","p","r",
          "o","j","e","c","t"," ","7">>,
        WithArg(CmdNewProject, <<"7">>)),
   Body(<<"T","h","e","n"," ","/","g","s","d","-","d","i","s","c","u","s",
          "s","-","p","h","a","s","e"," ","3"," ","n","o","w">>,
        WithArg(CmdDiscussPhase, <<"3">>)),
   Body(<<"N","o","t","h","i","n","g"," ","l","e","f","t",".">>,
        Null)}

\* An assistant text made of an opening line and what follows it.
Suggestion(head, body) ==
  [text |-> head \o <<"\n">> \o body.text, head |-> head, token |-> body.token]

Suggestions == {Suggestion(h, b) : h \in Heads \cup OtherHeads, b \in Bodies}

\* a text of n characters without white space
Filler(n) == [k \in 1..n |-> "x"]

\* A suggestion without a token, then a heading that ends its section and a
\* token `distance` characters after the N of "Next Up".
TokenAfterSection(distance) ==
  HeadArrowBlack \o <<"\n", "#", "#", " ">>
    \o Filler(distance - Len(NextUpText) - 5) \o <<" ">>
    \o WithArg(CmdPlanPhase, <<"3">>)

\* A suggestion whose section holds the token `distance` characters after the
\* N of "Next Up".
TokenInSection(distance) ==
  HeadArrowBlack \o <<"\n">>
    \o Filler(distance - Len(NextUpText) - 3) \o <<" ", BackQuote>>
    \o WithArg(CmdPlanPhase, <<"3">>) \o <<BackQuote>>

\* distances around the window of the last resort
Distances == {20, ProximityWindow - 1, ProximityWindow, ProximityWindow + 40}

\* the texts about the distance of the token from "Next Up", a token before
\* a suggestion without one, and a token after a "Next Up" that opens no
\* section
Distant ==
  {TokenAfterSection(n) : n \in Distances}
    \cup {TokenInSection(n) : n \in Distances}
    \cup {<<"A", "f", "t", "e", "r", " ">> \o WithArg(CmdPlanPhase, <<"3">>)
            \o <<"\n">> \o HeadArrowBlack \o <<"\n", "-">>,
          NextUpText \o <<" ", "i", "s", " ">> \o WithArg(CmdPlanPhase, <<"3">>)}

\* a suggestion under one of the inline directives
Directed ==
  {dir \o <<"\n">> \o s.text :
     dir \in {NoChainDirective, SkipDiscussDirective, UseDiscussDirective},
     s \in {x \in Suggestions :
              /\ x.head = HeadArrowBlack
              /\ x.token \in {WithArg(CmdExecutePhase, <<"0", "8">>),
                              WithArg(CmdDiscussPhase, <<"3">>)}}}

\* the texts of the last assistant message
AssistantTexts == {s.text : s \in Suggestions} \cup Distant \cup Directed

\* ---------------------------------------------------- configuration

\* A JSON object is a function from its keys; {} is the empty function.
EmptyObject == <<>>
Has(o, k) == k \in DOMAIN o

\* { ...a, ...b }
Spread(a, b) ==
  [k \in DOMAIN a \cup DOMAIN b |-> IF k \in DOMAIN b THEN b[k] ELSE a[k]]

\* A file that holds JSON: absent, present with text JSON.parse rejects, or
\* present with an object.
NoJson == [exists |-> FALSE, parses |-> FALSE, json |-> EmptyObject]
BadJson == [exists |-> TRUE, parses |-> FALSE, json |-> EmptyObject]
Json(o) == [exists |-> TRUE, parses |-> TRUE, json |-> o]

DefaultDelay == 1000

defaults ==
  [autoChain |-> TRUE, autoChainDelay |-> DefaultDelay,
   confirmBeforeChain |-> FALSE, skipDiscuss |-> FALSE]

\* loadConfig(), reading CONFIG_FILE
loadConfig(file) ==
  IF ~file.exists THEN defaults
  ELSE IF ~file.parses THEN defaults
  ELSE Spread(defaults, file.json)

\* loadProjectConfig(projectDir), reading .planning/config.json
loadProjectConfig(file) ==
  IF ~file.exists THEN EmptyObject
  ELSE IF ~file.parses THEN EmptyObject
  ELSE IF Has(file.json, "autoChain") /\ Has(file.json.autoChain, "skipDiscuss")
    THEN [skipDiscuss |-> file.json.autoChain.skipDiscuss]
  ELSE IF Has(file.json, "skipDiscuss")
    THEN [skipDiscuss |-> file.json.skipDiscuss]
  ELSE EmptyObject

\* getSkipDiscuss with the project configuration read before the inline
\* directives
getSkipDiscussProjectFirst(cfg, projectFile, text) ==
  IF Has(loadProjectConfig(projectFile), "skipDiscuss")
    THEN loadProjectConfig(projectFile).skipDiscuss
  ELSE IF Includes(text, SkipDiscussDirective) THEN TRUE
  ELSE IF Includes(text, UseDiscussDirective) THEN FALSE
  ELSE cfg.skipDiscuss

\* getSkipDiscuss(config, projectDir, content)
getSkipDiscuss(cfg, projectFile, text) ==
  IF Includes(text, SkipDiscussDirective) THEN TRUE
  ELSE IF Includes(text, UseDiscussDirective) THEN FALSE
  ELSE IF Has(loadProjectConfig(projectFile), "skipDiscuss")
    THEN loadProjectConfig(projectFile).skipDiscuss
  ELSE cfg.skipDiscuss

\* ------------------------------------------------------------- policy

skipCommands == {CmdVerifyWork, CmdNewProject, CmdNewMilestone}

\* shouldAutoChain without the test of the no-chain directive
shouldAutoChainNoDirective(command, text) ==
  IF command = Null THEN FALSE
  ELSE ~(\E skip \in skipCommands : StartsWith(command, skip))

\* shouldAutoChain with skipCommands.includes(command) for the test of the
\* prefix
shouldAutoChainExact(command, text) ==
  IF command = Null \/ Includes(text, NoChainDirective) THEN FALSE
  ELSE command \notin skipCommands

\* shouldAutoChain(command, content)
shouldAutoChain(command, text) ==
  IF command = Null \/ Includes(text, NoChainDirective) THEN FALSE
  ELSE ~(\E skip \in skipCommands : StartsWith(command, skip))

\* the transform without ${phaseNum}
TransformDropsNumber(skip, command) ==
  IF skip /\ StartsWith(command, CmdDiscussPhase) THEN CmdPlanPhase ELSE command

\* the skipDiscuss transform of the session.idle handler:
\* nextCommand.replace('/gsd-discuss-phase', '').trim(), then
\* `/gsd-plan-phase ${phaseNum}`.trim()
Transform(skip, command) ==
  IF skip /\ StartsWith(command, CmdDiscussPhase)
  THEN Trim(CmdPlanPhase \o <<" ">>
            \o Trim(SubSeq(command, Len(CmdDiscussPhase) + 1, Len(command))))
  ELSE command

\* ----------------------------------------------------------- messages

\* One turn of session.messages: { info: { role }, parts: [{ type, text }] }.
Message(role, parts) == [info |-> [role |-> role], parts |-> parts]
TextPart(text) == [type |-> "text", text |-> text]
ToolPart == [type |-> "tool", text |-> Null]

\* the for loop over parts: content += part.text + '\n' for each text part
\* that has text
ContentOf(parts) ==
  LET upTo[k \in 0..Len(parts)] ==
        IF k = 0 THEN <<>>
        ELSE IF parts[k].type = "text" /\ parts[k].text # Null
          THEN upTo[k - 1] \o parts[k].text \o <<"\n">>
        ELSE upTo[k - 1]
  IN  upTo[Len(parts)]

\* [...messages].reverse().find(m => m.info?.role === 'assistant'): its
\* position, 0 when there is none
LastAssistant(messages) ==
  LET A == {k \in 1..Len(messages) : messages[k].info.role = "assistant"}
  IN  IF A = {} THEN 0 ELSE Max(A)

\* What the session.idle handler makes of the result of session.messages: the
\* text of the last assistant message, or the reason it returns at once.
Retrieve(messages) ==
  LET last == LastAssistant(messages)
      text == IF last = 0 THEN <<>> ELSE ContentOf(messages[last].parts)
  IN  IF messages = <<>> THEN [outcome |-> "no-messages", content |-> <<>>]
      ELSE IF last = 0 THEN [outcome |-> "no-assistant", content |-> <<>>]
      ELSE IF text = <<>> THEN [outcome |-> "no-text", content |-> <<>>]
      ELSE [outcome |-> "text", content |-> text]

\* the decision without the `if (config.confirmBeforeChain)` return
GateNoConfirm(cfg, text, command) ==
  [outcome |-> IF ~shouldAutoChain(command, text) THEN "ineligible"
               ELSE "executing",
   command |-> command]

\* What the handler decides about the command it resolved: shouldAutoChain,
\* then confirmBeforeChain.
Gate(cfg, text, command) ==
  [outcome |-> IF ~shouldAutoChain(command, text) THEN "ineligible"
               ELSE IF cfg.confirmBeforeChain THEN "confirm-only"
               ELSE "executing",
   command |-> command]

\* What the handler makes of the command it extracted: `if (!nextCommand)
\* return`, then the skipDiscuss transform.
Resolved(cfg, projectFile, text, extracted) ==
  IF extracted = Null THEN [outcome |-> "no-command", command |-> Null]
  ELSE Gate(cfg, text,
            Transform(getSkipDiscuss(cfg, projectFile, text), extracted))

\* What the handler decides from the text: the command it resolved and
\* whether it goes on to run it.
Decide(cfg, projectFile, text) ==
  Resolved(cfg, projectFile, text, extractNextCommand(text))

\* --------------------------------------------------------------- state

\* the validity window of a handoff record, in milliseconds
ValidityWindow == 5 * 60 * 1000

\* the expiry test with >= for >
ExpiredAtWindow(record, time) == time - record.timestamp >= ValidityWindow

\* Date.now() - data.timestamp > 5 * 60 * 1000
Expired(record, time) == time - record.timestamp > ValidityWindow

\* The handoff file PENDING_FILE: absent, or present with `size` characters
\* of text.  Text that parses is the record storePendingCommand wrote;
\* `write` numbers the write that produced it, to tell two records with the
\* same command and timestamp apart.
NoFile ==
  [exists |-> FALSE, parses |-> FALSE, command |-> Null, timestamp |-> 0,
   write |-> 0, size |-> 0]
EmptyFile == [NoFile EXCEPT !.exists = TRUE]
Garbled(size) == [EmptyFile EXCEPT !.size = size]

\* a record that does not carry the time of its write
HandoffUnstamped(command, timestamp, write) ==
  [exists |-> TRUE, parses |-> TRUE, command |-> command,
   timestamp |-> 0, write |-> write, size |-> Len(command)]

\* JSON.stringify({ command, timestamp: Date.now() })
Handoff(command, timestamp, write) ==
  [exists |-> TRUE, parses |-> TRUE, command |-> command,
   timestamp |-> timestamp, write |-> write, size |-> Len(command)]

\* the command of host-control call 1
NewCommand == <<"/","n","e","w">>

\* How a handling ended, with the command of its last line:
\* log(`Skipping (interactive): ${nextCommand}`),
\* console.log(`[GSD Auto-Chain] Would execute: ${nextCommand}`)
Outcome(result, command) == [result |-> result, command |-> command]

\* One step of a host-control call as the handler sees it.
Call(op, at, arg) == [op |-> op, at |-> at, arg |-> arg]

\* the first two calls issued together, the first one not awaited
FirstCallsUnawaited(command) ==
  <<Call("executeCommand", "issued", NewCommand),
    Call("appendPrompt", "issued", command)>>

\* what the handler issues on entering the try block: call 1, and nothing
\* else until it has returned
FirstCalls(command) == <<Call("executeCommand", "issued", NewCommand)>>

VARIABLES
  now,          \* Date.now(), in milliseconds
  ticks,        \* clock advances so far
  signals,      \* signals the host has delivered so far
  configFile,   \* CONFIG_FILE
  pendingFile,  \* PENDING_FILE
  inputFile,    \* gsd-auto-input.txt: its text, Null before any write
  writes,       \* writes of the handoff file so far
  lastAccess,   \* the last access of the handoff file: "none", "read" for a
                \* read that found no file or removed it, "write"
  consumed,     \* the writes whose record getPendingCommand returned
  config,       \* per instance: the configuration read when it was loaded
  hooks,        \* per instance: whether it returned an event handler
  pc,           \* per instance: where its running handler stands
  content,      \* per instance: the assistant text of the handling
  nextCommand,  \* per instance: the command of the handling
  skipDiscuss,  \* per instance: the skipDiscuss of the handling, from
                \* getSkipDiscuss to its one use in the transform
  stamp,        \* per instance: the Date.now() of its handoff record
  fd,           \* per instance: its open descriptor of the handoff file
  data,         \* per instance: the record getPendingCommand parsed
  calls,        \* per instance: the host-control calls of the handling
  wrote,        \* per instance: the handoff records the handling wrote
  notified,     \* per instance: the notifications the handling attempted
  outcome       \* per instance: "running", or how its last handling ended
                \* and the command its last console or log line named

fileVars == <<pendingFile, inputFile, writes, lastAccess, consumed>>
clockVars == <<now, ticks>>
loadVars == <<configFile, config, hooks>>
locals ==
  <<content, nextCommand, skipDiscuss, stamp, fd, data, calls, wrote, notified>>
vars ==
  <<now, ticks, signals, configFile, pendingFile, inputFile, writes, lastAccess,
    consumed, config, hooks, pc, content, nextCommand, skipDiscuss, stamp, fd,
    data, calls, wrote, notified, outcome>>

\* ---------------------------------------------------------------- inputs

\* contents of the global configuration file at load
ConfigFiles ==
  {NoJson, Json([autoChain |-> FALSE]), Json([confirmBeforeChain |-> TRUE])}

\* contents of the project configuration file
ProjectFiles ==
  {NoJson, Json([skipDiscuss |-> FALSE]),
   Json([autoChain |-> [skipDiscuss |-> TRUE]])}

\* results of session.messages: the data of the response
MessageLists ==
  {<<>>,
   <<Message("user", <<TextPart(TextExecute)>>)>>,
   <<Message("assistant", <<ToolPart>>)>>,
   <<Message("assistant", <<TextPart(TextDone)>>)>>,
   <<Message("assistant", <<TextPart(TextDiscuss)>>),
     Message("assistant", <<ToolPart, TextPart(TextExecute)>>),
     Message("user", <<TextPart(TextDone)>>)>>,
   <<Message("assistant", <<TextPart(TextNoChain)>>)>>,
   <<Message("assistant", <<TextPart(TextNoChainExecute)>>)>>,
   <<Message("assistant", <<TextPart(TextVerify)>>)>>,
   <<Message("assistant", <<TextPart(TextDiscuss)>>)>>}

\* contents of the global configuration file, with each key the plugin reads
GlobalFiles ==
  {NoJson, BadJson, Json([autoChain |-> FALSE]),
   Json([confirmBeforeChain |-> TRUE]), Json([skipDiscuss |-> TRUE]),
   Json([skipDiscuss |-> FALSE, autoChainDelay |-> 5])}

\* contents of the project configuration file, with the flat key, the nested
\* key, both at once and neither
ProjectConfigFiles ==
  {NoJson, BadJson, Json(EmptyObject),
   Json([skipDiscuss |-> TRUE]), Json([skipDiscuss |-> FALSE]),
   Json([autoChain |-> [skipDiscuss |-> TRUE]]),
   Json([autoChain |-> [skipDiscuss |-> FALSE]]),
   Json([autoChain |-> [skipDiscuss |-> TRUE], skipDiscuss |-> FALSE]),
   Json([autoChain |-> EmptyObject, skipDiscuss |-> TRUE])}

\* the `content` the handler collects from a message with the one text part
\* `text`
ContentOfText(text) == ContentOf(<<TextPart(text)>>)

\* extractNextCommand over the texts of AssistantTexts, computed once
Extractions ==
  [t \in {ContentOfText(a) : a \in AssistantTexts} |-> extractNextCommand(t)]

\* clock advances: the whole validity window, and one millisecond more
TickSteps == {ValidityWindow, ValidityWindow + 1}

\* Retrieve over the inputs of the model, computed once
Retrievals ==
  {[messages |-> m, result |-> Retrieve(m)] : m \in MessageLists}

\* the texts a handling can read
Contents == {r.result.content : r \in Retrievals} \ {<<>>}

\* Decide over the inputs of the model, computed once
Decisions ==
  {[config |-> c, projectFile |-> f, content |-> t, result |-> Decide(c, f, t)] :
     c \in {loadConfig(g) : g \in ConfigFiles}, f \in ProjectFiles,
     t \in Contents}

\* ------------------------------------------------------------------ load

\* a plugin function without the `if (!config.autoChain) return {}` test
GsdAutoChainAlwaysOn(file) == [config |-> loadConfig(file), event |-> TRUE]

\* GsdAutoChain: the plugin function, run once per instance
GsdAutoChain(file) ==
  [config |-> loadConfig(file), event |-> loadConfig(file).autoChain]

\* the state once every instance has run GsdAutoChain with `file` as the
\* global configuration file
Loaded(file) ==
  /\ now = 0
  /\ ticks = 0
  /\ signals = 0
  /\ pendingFile = NoFile
  /\ inputFile = Null
  /\ writes = 0
  /\ lastAccess = "none"
  /\ consumed = <<>>
  /\ configFile = file
  /\ config = [p \in Procs |-> GsdAutoChain(file).config]
  /\ hooks = [p \in Procs |-> GsdAutoChain(file).event]
  /\ pc = [p \in Procs |-> "idle"]
  /\ content = [p \in Procs |-> <<>>]
  /\ nextCommand = [p \in Procs |-> Null]
  /\ skipDiscuss = [p \in Procs |-> FALSE]
  /\ stamp = [p \in Procs |-> 0]
  /\ fd = [p \in Procs |-> "none"]
  /\ data = [p \in Procs |-> NoFile]
  /\ calls = [p \in Procs |-> <<>>]
  /\ wrote = [p \in Procs |-> <<>>]
  /\ notified = [p \in Procs |-> 0]
  /\ outcome = [p \in Procs |-> Outcome("none", Null)]

Init == \E file \in ConfigFiles : Loaded(file)

\* the handler of p returns (or throws) with outcome o after a last line about
\* `command`, and its locals go
FinishWith(p, o, command) ==
  /\ pc' = [pc EXCEPT ![p] = "idle"]
  /\ outcome' = [outcome EXCEPT ![p] = Outcome(o, command)]
  /\ content' = [content EXCEPT ![p] = <<>>]
  /\ nextCommand' = [nextCommand EXCEPT ![p] = Null]
  /\ skipDiscuss' = [skipDiscuss EXCEPT ![p] = FALSE]
  /\ stamp' = [stamp EXCEPT ![p] = 0]
  /\ fd' = [fd EXCEPT ![p] = "none"]
  /\ data' = [data EXCEPT ![p] = NoFile]
  /\ calls' = [calls EXCEPT ![p] = <<>>]
  /\ wrote' = [wrote EXCEPT ![p] = <<>>]
  /\ notified' = [notified EXCEPT ![p] = 0]

Finish(p, o) == FinishWith(p, o, Null)

\* the handler of p goes on at `at`
Goto(p, at) ==
  /\ pc' = [pc EXCEPT ![p] = at]
  /\ outcome' = [outcome EXCEPT ![p] = Outcome("running", Null)]

\* a signal reaches the event handler of p
Deliver(p) ==
  /\ hooks[p]
  /\ pc[p] = "idle"
  /\ signals < MaxSignals
  /\ signals' = signals + 1

\* ------------------------------------------------------- session.created

\* session.created arrives; getPendingCommand starts with existsSync
SessionCreated(p) ==
  /\ Deliver(p)
  /\ IF pendingFile.exists
     THEN /\ Goto(p, "read")
          /\ UNCHANGED <<locals, lastAccess>>
     ELSE /\ Finish(p, "absent")
          /\ lastAccess' = "read"
  /\ UNCHANGED <<clockVars, pendingFile, inputFile, writes, consumed, loadVars>>

\* JSON.parse(readFileSync(PENDING_FILE, 'utf8')): the file may be gone by
\* now, and its text may not parse; both throw into the catch
ReadPending(p) ==
  /\ pc[p] = "read"
  /\ IF pendingFile.exists /\ pendingFile.parses
     THEN /\ data' = [data EXCEPT ![p] = pendingFile]
          /\ Goto(p, "unlink")
          /\ UNCHANGED <<content, nextCommand, skipDiscuss, stamp, fd, calls,
                         wrote, notified>>
     ELSE Finish(p, IF pendingFile.exists THEN "parse-failed" ELSE "read-failed")
  /\ UNCHANGED <<clockVars, signals, fileVars, loadVars>>

\* readFileSync fails for a reason of its own (EACCES, EIO)
ReadPendingFault(p) ==
  /\ pc[p] = "read"
  /\ Finish(p, "read-failed")
  /\ UNCHANGED <<clockVars, signals, fileVars, loadVars>>

\* an unlinkSync that returns and leaves the file
UnlinkPendingKeeps(p) ==
  /\ pc[p] = "unlink"
  /\ lastAccess' = "read"
  /\ Goto(p, "expiry")
  /\ UNCHANGED <<clockVars, signals, pendingFile, inputFile, writes, consumed,
                 loadVars, locals>>

\* unlinkSync(PENDING_FILE): removes the name, so every descriptor open on the
\* file now writes to a file no path leads to; throws when the file is gone
UnlinkPending(p) ==
  /\ pc[p] = "unlink"
  /\ IF pendingFile.exists
     THEN /\ pendingFile' = NoFile
          /\ lastAccess' = "read"
          /\ fd' = [q \in Procs |-> IF fd[q] = "linked" THEN "orphan" ELSE fd[q]]
          /\ Goto(p, "expiry")
          /\ UNCHANGED <<content, nextCommand, skipDiscuss, stamp, data, calls,
                         wrote, notified>>
     ELSE /\ Finish(p, "read-failed")
          /\ UNCHANGED <<pendingFile, lastAccess>>
  /\ UNCHANGED <<clockVars, signals, inputFile, writes, consumed, loadVars>>

\* unlinkSync fails for a reason of its own (EPERM, EBUSY)
UnlinkPendingFault(p) ==
  /\ pc[p] = "unlink"
  /\ Finish(p, "read-failed")
  /\ UNCHANGED <<clockVars, signals, fileVars, loadVars>>

\* the expiry test, the return of getPendingCommand, then `if (pending)`
CheckExpiry(p) ==
  /\ pc[p] = "expiry"
  /\ IF Expired(data[p], now)
     THEN /\ Finish(p, "expired")
          /\ UNCHANGED consumed
     ELSE /\ consumed' = Append(consumed, data[p].write)
          /\ Goto(p, "input")
          /\ UNCHANGED locals
  /\ UNCHANGED <<clockVars, signals, pendingFile, inputFile, writes, lastAccess,
                 loadVars>>

\* a session.created that goes on to type and submit the command it read
WriteInputSubmits(p) ==
  /\ pc[p] = "input"
  /\ inputFile' = data[p].command
  /\ nextCommand' = [nextCommand EXCEPT ![p] = data[p].command]
  /\ calls' = [calls EXCEPT ![p] = <<Call("appendPrompt", "issued", data[p].command)>>]
  /\ Goto(p, "append")
  /\ UNCHANGED <<content, skipDiscuss, stamp, fd, data, wrote, notified>>
  /\ UNCHANGED <<clockVars, signals, pendingFile, writes, lastAccess, consumed,
                 loadVars>>

\* writeFileSync(inputFile, pending) and the two console lines after it
WriteInput(p) ==
  /\ pc[p] = "input"
  /\ inputFile' = data[p].command
  /\ Finish(p, "surfaced")
  /\ UNCHANGED <<clockVars, signals, pendingFile, writes, lastAccess, consumed,
                 loadVars>>

\* writeFileSync(inputFile, pending) throws; nothing catches it
WriteInputFault(p) ==
  /\ pc[p] = "input"
  /\ Finish(p, "threw")
  /\ UNCHANGED <<clockVars, signals, fileVars, loadVars>>

\* ---------------------------------------------------------- session.idle

\* session.idle arrives: clearLog, the sessionID test, the test of
\* client.session.messages, then the call of session.messages
SessionIdle(p, sessionID, messagesApi) ==
  /\ Deliver(p)
  /\ IF ~sessionID THEN Finish(p, "no-session")
     ELSE IF ~messagesApi THEN Finish(p, "no-api")
     ELSE Goto(p, "messages") /\ UNCHANGED locals
  /\ UNCHANGED <<clockVars, fileVars, loadVars>>

\* session.messages throws with no try around it
MessagesThrowUncaught(p) ==
  /\ pc[p] = "messages"
  /\ Finish(p, "threw")
  /\ UNCHANGED <<clockVars, signals, fileVars, loadVars>>

\* session.messages throws
MessagesThrow(p) ==
  /\ pc[p] = "messages"
  /\ Finish(p, "fetch-error")
  /\ UNCHANGED <<clockVars, signals, fileVars, loadVars>>

\* session.messages returns: the handler collects the text of the last
\* assistant message
MessagesReturn(p, messages) ==
  /\ pc[p] = "messages"
  /\ LET r == (CHOOSE x \in Retrievals : x.messages = messages).result
     IN  IF r.outcome = "text"
         THEN /\ content' = [content EXCEPT ![p] = r.content]
              /\ Goto(p, "extract")
              /\ UNCHANGED <<nextCommand, skipDiscuss, stamp, fd, data, calls,
                             wrote, notified>>
         ELSE Finish(p, r.outcome)
  /\ UNCHANGED <<clockVars, signals, fileVars, loadVars>>

\* a handler that calls storePendingCommand before the shouldAutoChain test
ResolveStoresFirst(p, projectFile) ==
  /\ pc[p] = "extract"
  /\ LET d == (CHOOSE x \in Decisions :
                 /\ x.config = config[p]
                 /\ x.projectFile = projectFile
                 /\ x.content = content[p]).result
     IN  IF d.outcome = "executing"
         THEN /\ nextCommand' = [nextCommand EXCEPT ![p] = d.command]
              /\ calls' = [calls EXCEPT ![p] = FirstCalls(d.command)]
              /\ Goto(p, "new")
              /\ UNCHANGED <<content, skipDiscuss, stamp, fd, data, wrote, notified>>
              /\ UNCHANGED fileVars
         ELSE /\ FinishWith(p, d.outcome, d.command)
              /\ IF d.outcome = "ineligible"
                 THEN /\ pendingFile' = Handoff(d.command, now, writes + 1)
                      /\ writes' = writes + 1
                      /\ lastAccess' = "write"
                      /\ UNCHANGED <<inputFile, consumed>>
                 ELSE UNCHANGED fileVars
  /\ UNCHANGED <<clockVars, signals, loadVars>>

\* extractNextCommand, getSkipDiscuss with its read of the project
\* configuration, the transform, shouldAutoChain and confirmBeforeChain:
\* everything up to the first host-control call, which is issued when the
\* command may run
Resolve(p, projectFile) ==
  /\ pc[p] = "extract"
  /\ LET d == (CHOOSE x \in Decisions :
                 /\ x.config = config[p]
                 /\ x.projectFile = projectFile
                 /\ x.content = content[p]).result
     IN  IF d.outcome = "executing"
         THEN /\ nextCommand' = [nextCommand EXCEPT ![p] = d.command]
              /\ calls' = [calls EXCEPT ![p] = FirstCalls(d.command)]
              /\ Goto(p, "new")
              /\ UNCHANGED <<content, skipDiscuss, stamp, fd, data, wrote, notified>>
         ELSE FinishWith(p, d.outcome, d.command)
  /\ UNCHANGED <<clockVars, signals, fileVars, loadVars>>

\* a host-control call of p returns or throws, or the next one is issued:
\* `steps` join its record, and the handler goes on at `at`
Proceed(p, steps, at) ==
  /\ calls' = [calls EXCEPT ![p] = @ \o steps]
  /\ Goto(p, at)
  /\ UNCHANGED <<clockVars, signals, fileVars, loadVars, content, nextCommand,
                 stamp, fd, data, wrote, notified, skipDiscuss>>

\* a catch around each call of its own: after a throw the handler goes on
\* with the last call
ThrewGoesOn(p, op, arg) ==
  Proceed(p, <<Call(op, "threw", arg), Call("submitPrompt", "issued", Null)>>,
          "submit")

\* a catch that starts the sequence again
ThrewRetries(p, op, arg) ==
  Proceed(p, <<Call(op, "threw", arg),
               Call("executeCommand", "issued", NewCommand)>>, "new")

\* host-control call `op` of p throws: the catch logs it, autoExecuted stays
\* false, and the handler goes on at storePendingCommand
Threw(p, op, arg) == Proceed(p, <<Call(op, "threw", arg)>>, "store")

\* client.tui.executeCommand('/new') returns; the 1500 ms wait starts
NewReturn(p) ==
  /\ pc[p] = "new"
  /\ Proceed(p, <<Call("executeCommand", "returned", NewCommand)>>, "settle")

NewThrow(p) == pc[p] = "new" /\ Threw(p, "executeCommand", NewCommand)

\* the 1500 ms wait ends; client.tui.appendPrompt(nextCommand) is issued
SettleElapsed(p) ==
  /\ pc[p] = "settle"
  /\ Proceed(p, <<Call("appendPrompt", "issued", nextCommand[p])>>, "append")

\* appendPrompt returns; client.tui.submitPrompt() is issued
AppendReturn(p) ==
  /\ pc[p] = "append"
  /\ Proceed(p, <<Call("appendPrompt", "returned", nextCommand[p]),
                  Call("submitPrompt", "issued", Null)>>, "submit")

AppendThrow(p) == pc[p] = "append" /\ Threw(p, "appendPrompt", nextCommand[p])

\* a handler that stores the command after a successful submit as well
SubmitReturnStores(p) ==
  /\ pc[p] = "submit"
  /\ Proceed(p, <<Call("submitPrompt", "returned", Null)>>, "store")

\* submitPrompt returns: autoExecuted = true, and the handler returns
SubmitReturn(p) ==
  /\ pc[p] = "submit"
  /\ Finish(p, "auto-continued")
  /\ UNCHANGED <<clockVars, signals, fileVars, loadVars>>

SubmitThrow(p) == pc[p] = "submit" /\ Threw(p, "submitPrompt", Null)

\* --------------------------------------------------- storePendingCommand

\* existsSync(cacheDir), mkdirSync, Date.now() for the record, and the open of
\* writeFileSync, which creates the file or empties it
StoreOpen(p) ==
  /\ pc[p] = "store"
  /\ stamp' = [stamp EXCEPT ![p] = now]
  /\ pendingFile' = EmptyFile
  /\ lastAccess' = "write"
  /\ fd' = [fd EXCEPT ![p] = "linked"]
  /\ Goto(p, "write")
  /\ UNCHANGED <<clockVars, signals, inputFile, writes, consumed, loadVars,
                 content, nextCommand, data, calls, wrote, notified, skipDiscuss>>

\* mkdirSync or the open throws; nothing catches it
StoreOpenFault(p) ==
  /\ pc[p] = "store"
  /\ Finish(p, "threw")
  /\ UNCHANGED <<clockVars, signals, fileVars, loadVars>>

\* the write of writeFileSync, at offset 0 of the file the descriptor is open
\* on: text that was written there since the open and is longer keeps its
\* tail, and a file that was unlinked since the open is on no path
StoreWrite(p) ==
  /\ pc[p] = "write"
  /\ writes' = writes + 1
  /\ lastAccess' = "write"
  /\ LET record == Handoff(nextCommand[p], stamp[p], writes + 1)
     IN  /\ wrote' = [wrote EXCEPT ![p] = Append(@, record)]
         /\ pendingFile' =
              IF fd[p] # "linked" THEN pendingFile
              ELSE IF pendingFile.size <= record.size THEN record
              ELSE Garbled(pendingFile.size)
  /\ fd' = [fd EXCEPT ![p] = "none"]
  /\ Goto(p, "delay")
  /\ UNCHANGED <<clockVars, signals, inputFile, consumed, loadVars, content,
                 nextCommand, stamp, data, calls, notified, skipDiscuss>>

\* the write throws (ENOSPC, EIO); nothing catches it
StoreWriteFault(p) ==
  /\ pc[p] = "write"
  /\ Finish(p, "threw")
  /\ UNCHANGED <<clockVars, signals, fileVars, loadVars>>

\* the autoChainDelay wait ends; the notification command is started
DelayElapsed(p) ==
  /\ pc[p] = "delay"
  /\ notified' = [notified EXCEPT ![p] = @ + 1]
  /\ Goto(p, "notify")
  /\ UNCHANGED <<clockVars, signals, fileVars, loadVars, content, nextCommand,
                 stamp, fd, data, calls, wrote, skipDiscuss>>

\* the notification command ends
NotifyReturn(p) ==
  /\ pc[p] = "notify"
  /\ Finish(p, "deferred")
  /\ UNCHANGED <<clockVars, signals, fileVars, loadVars>>

\* a failed notification that is tried again after another wait
NotifyThrowRetries(p) ==
  /\ pc[p] = "notify"
  /\ Goto(p, "delay")
  /\ UNCHANGED <<clockVars, signals, fileVars, loadVars, locals>>

\* the notification command fails; the empty catch swallows it
NotifyThrow(p) ==
  /\ pc[p] = "notify"
  /\ Finish(p, "deferred-unnotified")
  /\ UNCHANGED <<clockVars, signals, fileVars, loadVars>>

\* ----------------------------------------------------------------- clock

Tick(d) ==
  /\ ticks < MaxTicks
  /\ ticks' = ticks + 1
  /\ now' = now + d
  /\ UNCHANGED <<signals, fileVars, loadVars, pc, locals, outcome>>

\* ------------------------------------------------------------------ next

Next ==
  \/ \E d \in TickSteps : Tick(d)
  \/ \E p \in Procs :
       \/ SessionCreated(p)
       \/ ReadPending(p)
       \/ ReadPendingFault(p)
       \/ UnlinkPending(p)
       \/ UnlinkPendingFault(p)
       \/ CheckExpiry(p)
       \/ WriteInput(p)
       \/ WriteInputFault(p)
       \/ \E sessionID \in BOOLEAN, messagesApi \in BOOLEAN :
            SessionIdle(p, sessionID, messagesApi)
       \/ MessagesThrow(p)
       \/ \E messages \in MessageLists : MessagesReturn(p, messages)
       \/ \E projectFile \in ProjectFiles : Resolve(p, projectFile)
       \/ NewReturn(p)
       \/ NewThrow(p)
       \/ SettleElapsed(p)
       \/ AppendReturn(p)
       \/ AppendThrow(p)
       \/ SubmitReturn(p)
       \/ SubmitThrow(p)
       \/ StoreOpen(p)
       \/ StoreOpenFault(p)
       \/ StoreWrite(p)
       \/ StoreWriteFault(p)
       \/ DelayElapsed(p)
       \/ NotifyReturn(p)
       \/ NotifyThrow(p)

Spec == Init /\ [][Next]_vars

\* ------------------------------------------- one handling, step by step

\* The session.idle handler from the text of the last assistant message to
\* the end, one statement at a time, over every text of AssistantTexts and
\* every configuration file, while the global configuration file changes.

StepInit == \E file \in GlobalFiles : Loaded(file)

\* the user saves another global configuration file
ConfigWrite(file) ==
  /\ file # configFile
  /\ configFile' = file
  /\ UNCHANGED <<clockVars, signals, fileVars, config, hooks, pc, locals, outcome>>

\* session.idle arrives with a sessionID, and session.messages returns one
\* assistant message whose one text part is `text`
IdleText(p, text) ==
  /\ hooks[p]
  /\ pc[p] = "idle"
  /\ signals < MaxTriggers
  /\ signals' = signals + 1
  /\ content' = [content EXCEPT ![p] = ContentOfText(text)]
  /\ Goto(p, "extract")
  /\ UNCHANGED <<clockVars, fileVars, loadVars, nextCommand, skipDiscuss, stamp,
                 fd, data, calls, wrote, notified>>

\* let nextCommand = extractNextCommand(content); if (!nextCommand) return
ExtractStep(p) ==
  /\ pc[p] = "extract"
  /\ IF Extractions[content[p]] = Null
     THEN FinishWith(p, "no-command", Null)
     ELSE /\ nextCommand' = [nextCommand EXCEPT ![p] = Extractions[content[p]]]
          /\ Goto(p, "skip")
          /\ UNCHANGED <<content, skipDiscuss, stamp, fd, data, calls, wrote,
                         notified>>
  /\ UNCHANGED <<clockVars, signals, fileVars, loadVars>>

\* const skipDiscuss = getSkipDiscuss(config, directory, content), which
\* reads the project configuration file
SkipDiscussStep(p, projectFile) ==
  /\ pc[p] = "skip"
  /\ skipDiscuss' =
       [skipDiscuss EXCEPT ![p] = getSkipDiscuss(config[p], projectFile, content[p])]
  /\ Goto(p, "transform")
  /\ UNCHANGED <<clockVars, signals, fileVars, loadVars, content, nextCommand,
                 stamp, fd, data, calls, wrote, notified>>

\* the transform of nextCommand, the one place that reads skipDiscuss
TransformStep(p) ==
  /\ pc[p] = "transform"
  /\ nextCommand' =
       [nextCommand EXCEPT ![p] = Transform(skipDiscuss[p], nextCommand[p])]
  /\ skipDiscuss' = [skipDiscuss EXCEPT ![p] = FALSE]
  /\ Goto(p, "gate")
  /\ UNCHANGED <<clockVars, signals, fileVars, loadVars, content, stamp, fd,
                 data, calls, wrote, notified>>

\* shouldAutoChain, then confirmBeforeChain, then the first host-control call
GateStep(p) ==
  /\ pc[p] = "gate"
  /\ LET d == Gate(config[p], content[p], nextCommand[p])
     IN  IF d.outcome = "executing"
         THEN /\ calls' = [calls EXCEPT ![p] = FirstCalls(d.command)]
              /\ Goto(p, "new")
              /\ UNCHANGED <<content, nextCommand, skipDiscuss, stamp, fd, data,
                             wrote, notified>>
         ELSE FinishWith(p, d.outcome, d.command)
  /\ UNCHANGED <<clockVars, signals, fileVars, loadVars>>

StepNext ==
  \/ \E file \in GlobalFiles : ConfigWrite(file)
  \/ \E p \in Procs :
       \/ \E text \in AssistantTexts : IdleText(p, text)
       \/ ExtractStep(p)
       \/ \E projectFile \in ProjectConfigFiles : SkipDiscussStep(p, projectFile)
       \/ TransformStep(p)
       \/ GateStep(p)
       \/ NewReturn(p)
       \/ NewThrow(p)
       \/ SettleElapsed(p)
       \/ AppendReturn(p)
       \/ AppendThrow(p)
       \/ SubmitReturn(p)
       \/ SubmitThrow(p)
       \/ StoreOpen(p)
       \/ StoreOpenFault(p)
       \/ StoreWrite(p)
       \/ StoreWriteFault(p)
       \/ DelayElapsed(p)
       \/ NotifyReturn(p)
       \/ NotifyThrow(p)

StepSpec == StepInit /\ [][StepNext]_vars

\* ------------------------------------------- an instance that was disabled

\* The global configuration file was set to autoChain false after instance 1
\* had been loaded with `file`, and the other instances were loaded after
\* that.
InertInit ==
  \E file \in ConfigFiles :
    /\ now = 0
    /\ ticks = 0
    /\ signals = 0
    /\ pendingFile = NoFile
    /\ inputFile = Null
    /\ writes = 0
    /\ lastAccess = "none"
    /\ consumed = <<>>
    /\ configFile = Json([autoChain |-> FALSE])
    /\ config = [p \in Procs |->
                   GsdAutoChain(IF p = 1 THEN file ELSE configFile).config]
    /\ hooks = [p \in Procs |->
                  GsdAutoChain(IF p = 1 THEN file ELSE configFile).event]
    /\ pc = [p \in Procs |-> "idle"]
    /\ content = [p \in Procs |-> <<>>]
    /\ nextCommand = [p \in Procs |-> Null]
    /\ skipDiscuss = [p \in Procs |-> FALSE]
    /\ stamp = [p \in Procs |-> 0]
    /\ fd = [p \in Procs |-> "none"]
    /\ data = [p \in Procs |-> NoFile]
    /\ calls = [p \in Procs |-> <<>>]
    /\ wrote = [p \in Procs |-> <<>>]
    /\ notified = [p \in Procs |-> 0]
    /\ outcome = [p \in Procs |-> Outcome("none", Null)]

\* the host has a session.created or session.idle for an instance whose
\* plugin function returned {}: there is no event handler to run
SignalDropped(p) ==
  /\ ~hooks[p]
  /\ signals < MaxSignals
  /\ signals' = signals + 1
  /\ UNCHANGED <<clockVars, fileVars, loadVars, pc, locals, outcome>>

InertNext == Next \/ \E p \in Procs : SignalDropped(p)

InertSpec == InertInit /\ [][InertNext]_vars


\* ---------------------------------------------------------------- claims

\* where a handler stands from storePendingCommand on
Deferring == {"store", "write", "delay", "notify"}

Last(s) == s[Len(s)]

\* the positions of the calls of p that threw
Thrown(p) == {k \in DOMAIN calls[p] : calls[p][k].at = "threw"}

\* the order of the three host-control calls
CallOrder == <<"executeCommand", "appendPrompt", "submitPrompt">>

\* C1: within one session.idle handling the three host-control calls are
\* issued in the order executeCommand, appendPrompt, submitPrompt, and each
\* of the last two is issued only once the one before it has returned.
C1_CallsSequential ==
  \A p \in Procs : \A k \in DOMAIN calls[p] :
    calls[p][k].at = "issued" =>
      LET n == Cardinality({j \in 1..k : calls[p][j].at = "issued"})
      IN  /\ n <= 3
          /\ calls[p][k].op = CallOrder[n]
          /\ n > 1 => /\ calls[p][k - 1].op = CallOrder[n - 1]
                      /\ calls[p][k - 1].at = "returned"

\* a handling that has issued all three calls
C1_Witness == \E p \in Procs : pc[p] = "submit" /\ Len(calls[p]) = 5

\* C2: when one of the three host-control calls throws, no further call is
\* issued, the handler is in Deferring, and the record it writes there holds
\* the command the handling resolved, after the skipDiscuss rewrite.
C2_FailureDefers ==
  \A p \in Procs :
    /\ Thrown(p) # {} => Thrown(p) = {Len(calls[p])} /\ pc[p] \in Deferring
    /\ pc[p] \in Deferring =>
         /\ Thrown(p) # {}
         /\ \E x \in Decisions :
              /\ x.config = config[p]
              /\ x.content = content[p]
              /\ x.result.outcome = "executing"
              /\ x.result.command = nextCommand[p]
    /\ pc[p] \in {"delay", "notify"} =>
         /\ Len(wrote[p]) = 1
         /\ wrote[p][1].parses
         /\ wrote[p][1].command = nextCommand[p]

\* call 3 threw after calls 1 and 2 had returned, and the handoff file holds
\* the rewritten command of a text that suggested the discuss step
C2_Witness ==
  \E p \in Procs :
    /\ pc[p] = "delay"
    /\ Len(calls[p]) = 6
    /\ content[p] = TextDiscuss \o <<"\n">>
    /\ pendingFile.parses
    /\ pendingFile.write = wrote[p][1].write
    /\ pendingFile.command = CmdPlanPhase \o <<" ", "3">>

\* C3: when appendPrompt throws, the record written carries the command and
\* the time of the write; a session.created handler that reads it surfaces
\* that command when the record is at most 300000 ms old at the expiry test
\* and surfaces nothing when it is older.
C3_ScenarioD ==
  /\ [](\A p \in Procs : \A q \in Procs :
          (pc[p] \in {"delay", "notify"} /\ data[q].write = wrote[p][1].write) =>
             /\ data[q].command = nextCommand[p]
             /\ data[q].timestamp = stamp[p])
  /\ [][\A p \in Procs :
          /\ StoreOpen(p) => stamp'[p] = now
          /\ (StoreWrite(p) /\ Last(calls[p]).op = "appendPrompt") =>
               /\ wrote'[p][1].command = nextCommand[p]
               /\ wrote'[p][1].timestamp = stamp[p]
               /\ (fd[p] = "linked" /\ pendingFile = EmptyFile) =>
                    pendingFile' = wrote'[p][1]
          /\ (CheckExpiry(p) /\ now - data[p].timestamp <= 300000) =>
               pc'[p] = "input" /\ data'[p] = data[p]
          /\ (CheckExpiry(p) /\ now - data[p].timestamp > 300000) =>
               /\ pc'[p] = "idle"
               /\ outcome'[p].result = "expired"
               /\ inputFile' = inputFile
          /\ WriteInput(p) =>
               inputFile' = data[p].command /\ outcome'[p].result = "surfaced"
       ]_vars

\* appendPrompt threw, and while that handler waits before its notification
\* a session.created handler has surfaced its record at an age of exactly
\* five minutes
C3_Witness ==
  \E p \in Procs : \E q \in Procs :
    /\ pc[p] \in {"delay", "notify"}
    /\ Last(calls[p]).op = "appendPrompt"
    /\ outcome[q].result = "surfaced"
    /\ inputFile = nextCommand[p]
    /\ consumed = <<wrote[p][1].write>>
    /\ now - stamp[p] = ValidityWindow

\* C4: no handler ends by throwing to the host.
C4_NoUnhandledError == \A p \in Procs : outcome[p].result # "threw"

\* C5: the record of one write is returned by getPendingCommand at most once.
C5_ConsumedAtMostOnce ==
  \A i \in DOMAIN consumed : \A j \in DOMAIN consumed :
    consumed[i] = consumed[j] => i = j

\* C6: after a read that found no file or removed it, and with no write
\* since, the handoff file is absent and the next read returns absent.
C6_ReadIdempotent ==
  /\ [](lastAccess = "read" => ~pendingFile.exists)
  /\ [][\A p \in Procs :
          (SessionCreated(p) /\ lastAccess = "read") =>
             /\ pc'[p] = "idle"
             /\ outcome'[p].result = "absent"
             /\ UNCHANGED <<pendingFile, inputFile, consumed>>
       ]_vars

\* a read surfaced the one record ever written, and the read after it
\* returned absent
C6_Witness ==
  \E p \in Procs : \E q \in Procs :
    /\ outcome[p].result = "absent"
    /\ outcome[q].result = "surfaced"
    /\ lastAccess = "read"
    /\ writes = 1
    /\ signals = 3

\* C7: a read returns absent for a record more than 300000 ms old at the
\* expiry test and the command of a record at most that old; the record
\* changes only by unlinkSync and by the writes of storePendingCommand, never
\* by the passing of time.
C7_ExpiryOnRead ==
  [][/\ \A p \in Procs :
          CheckExpiry(p) =>
            IF now - data[p].timestamp > 300000
            THEN /\ pc'[p] = "idle"
                 /\ outcome'[p].result = "expired"
                 /\ consumed' = consumed
            ELSE /\ pc'[p] = "input"
                 /\ data'[p].command = data[p].command
                 /\ consumed' = Append(consumed, data[p].write)
     /\ pendingFile' # pendingFile =>
          \E p \in Procs : UnlinkPending(p) \/ StoreOpen(p) \/ StoreWrite(p)
     /\ now' # now => pendingFile' = pendingFile
    ]_vars

\* a record read one millisecond after its five minutes
C7_Witness ==
  \E p \in Procs :
    /\ outcome[p].result = "expired"
    /\ now = ValidityWindow + 1
    /\ writes = 1
    /\ ~pendingFile.exists

\* C8: a read that finds the handoff file present never returns leaving
\* the file in place.
C8_ReadRemoves ==
  [][\A p \in Procs :
       (ReadPending(p) /\ pendingFile.exists /\ pc'[p] = "idle") =>
          ~pendingFile'.exists
    ]_vars

NoChainContents == {t \in Contents : Includes(t, NoChainDirective)}

\* the commands the texts of the model resolve to
Commands == {x.result.command : x \in Decisions} \ {Null}

\* shouldAutoChain is false for every text with the directive and every command
NoChainNeverEligible ==
  \A t \in NoChainContents : \A c \in Commands : ~shouldAutoChain(c, t)

\* C10: a text that contains the no-chain directive is never eligible: the
\* handling that read it ends at shouldAutoChain, with no host-control call,
\* no write of the handoff file and no notification.
C10_NoChainIneligible ==
  /\ [](/\ NoChainNeverEligible
        /\ \A p \in Procs :
             content[p] \in NoChainContents =>
               /\ pc[p] = "extract"
               /\ calls[p] = <<>>
               /\ wrote[p] = <<>>
               /\ notified[p] = 0)
  /\ [][\A p \in Procs : \A f \in ProjectFiles :
          (Resolve(p, f) /\ content[p] \in NoChainContents) =>
             /\ pc'[p] = "idle"
             /\ outcome'[p].result = "ineligible"
             /\ calls'[p] = <<>>
             /\ notified'[p] = 0
             /\ UNCHANGED fileVars
       ]_vars

\* a handling ended as ineligible with a command that shouldAutoChain lets
\* through when the directive is not there
C10_Witness ==
  \E p \in Procs :
    /\ outcome[p].result = "ineligible"
    /\ outcome[p].command = CmdExecutePhase \o <<" ", "0", "8">>

\* `command` is one of skipCommands or goes on after one
DenyListed(command) ==
  \E skip \in skipCommands :
    Len(command) >= Len(skip) /\ SubSeq(command, 1, Len(skip)) = skip

\* each of skipCommands alone, with an argument, and as the start of a longer
\* name without and with an argument
DenyListedCommands ==
  {skip \o rest :
     skip \in skipCommands,
     rest \in {<<>>, <<" ", "2">>, <<"f", "l", "o", "w">>,
               <<"f", "l", "o", "w", " ", "4">>}}

\* shouldAutoChain is false for each of them, whatever the text
DenyListedNeverEligible ==
  \A c \in DenyListedCommands : \A t \in DOMAIN Extractions : ~shouldAutoChain(c, t)

\* C11: a command that is one of /gsd-verify-work, /gsd-new-project and
\* /gsd-new-milestone or starts with one of them, with or without an
\* argument, is not eligible: the handling that resolved it ends at
\* shouldAutoChain, and no such command is the text of an appendPrompt call
\* or the command of a record written to the handoff file.
C11_DenyListNeverChains ==
  /\ [](/\ DenyListedNeverEligible
        /\ \A p \in Procs :
             /\ \A k \in DOMAIN calls[p] :
                  calls[p][k].op = "appendPrompt" => ~DenyListed(calls[p][k].arg)
             /\ \A k \in DOMAIN wrote[p] : ~DenyListed(wrote[p][k].command)
             /\ pc[p] \in {"new", "settle", "append", "submit"} \cup Deferring =>
                  ~DenyListed(nextCommand[p])
        /\ pendingFile.parses => ~DenyListed(pendingFile.command))
  /\ [][\A p \in Procs :
          (GateStep(p) /\ DenyListed(nextCommand[p])) =>
             /\ pc'[p] = "idle"
             /\ outcome'[p] = Outcome("ineligible", nextCommand[p])
             /\ calls'[p] = <<>>
             /\ notified'[p] = 0
             /\ UNCHANGED fileVars
       ]_vars

\* a handling ended at shouldAutoChain with /gsd-verify-workflow 4, and
\* nothing was written
C11_Witness ==
  \E p \in Procs :
    /\ outcome[p] = Outcome("ineligible", WithArg(CmdVerifyWorkflow, <<"4">>))
    /\ writes = 0

\* the file holds an object with the key skipDiscuss
DefinesFlat(file) ==
  file.exists /\ file.parses /\ "skipDiscuss" \in DOMAIN file.json

\* the file holds an object with the key skipDiscuss under autoChain
DefinesNested(file) ==
  /\ file.exists
  /\ file.parses
  /\ "autoChain" \in DOMAIN file.json
  /\ "skipDiscuss" \in DOMAIN file.json.autoChain

\* the configuration an instance loaded has the skipDiscuss of the global
\* file when the file defines it, and the built-in default false when not
GlobalLayerOverDefault ==
  \A g \in GlobalFiles :
    loadConfig(g).skipDiscuss = IF DefinesFlat(g) THEN g.json.skipDiscuss ELSE FALSE

\* C12: the skipDiscuss of a handling is true under the inline directive
\* skip-discuss and false under use-discuss, whatever the files say; without
\* a directive it is the value of the project file when that file defines
\* one (under autoChain, or else at the top), whatever the global file says;
\* and otherwise the value of the global configuration, which is the value
\* of the global file when that file defines one and false when not.
C12_Precedence ==
  /\ [](/\ GlobalLayerOverDefault
        /\ \A p \in Procs : \E g \in GlobalFiles : config[p] = loadConfig(g))
  /\ [][\A p \in Procs : \A f \in ProjectConfigFiles :
          SkipDiscussStep(p, f) =>
            LET skip == IndexOf(content[p], SkipDiscussDirective) # 0
                use == IndexOf(content[p], UseDiscussDirective) # 0
            IN  /\ skip => skipDiscuss'[p] = TRUE
                /\ (use /\ ~skip) => skipDiscuss'[p] = FALSE
                /\ (~skip /\ ~use /\ DefinesNested(f)) =>
                     skipDiscuss'[p] = f.json.autoChain.skipDiscuss
                /\ (~skip /\ ~use /\ ~DefinesNested(f) /\ DefinesFlat(f)) =>
                     skipDiscuss'[p] = f.json.skipDiscuss
                /\ (~skip /\ ~use /\ ~DefinesNested(f) /\ ~DefinesFlat(f)) =>
                     skipDiscuss'[p] = config[p].skipDiscuss
       ]_vars

\* the text says use-discuss, the global file says skip, and the handling
\* goes on with false
C12_Witness ==
  \E p \in Procs :
    /\ pc[p] = "transform"
    /\ Includes(content[p], UseDiscussDirective)
    /\ config[p].skipDiscuss
    /\ ~skipDiscuss[p]

\* `command` starts with /gsd-discuss-phase
NamesDiscuss(command) ==
  /\ Len(command) >= Len(CmdDiscussPhase)
  /\ SubSeq(command, 1, Len(CmdDiscussPhase)) = CmdDiscussPhase

\* what follows /gsd-discuss-phase and one space in `command`
NumberOf(command) == SubSeq(command, Len(CmdDiscussPhase) + 2, Len(command))

\* `command` is /gsd-discuss-phase, one space and a number
DiscussWithNumber(command) ==
  /\ Len(command) >= Len(CmdDiscussPhase) + 2
  /\ NamesDiscuss(command)
  /\ command[Len(CmdDiscussPhase) + 1] = " "
  /\ \A k \in 1..Len(NumberOf(command)) : NumberOf(command)[k] \in Digits

\* where a handler stands after the transform
Transformed == {"gate", "new", "settle", "append", "submit"} \cup Deferring

\* C13: with skipDiscuss true the transform turns /gsd-discuss-phase N into
\* /gsd-plan-phase N with the same N; with skipDiscuss false, or for a
\* command that does not start with /gsd-discuss-phase, it leaves the command
\* as it is; and the command after the transform is the one the handling
\* passes to appendPrompt and writes to the handoff file.
C13_Rewrite ==
  /\ [](\A p \in Procs :
          /\ \A k \in DOMAIN calls[p] :
               calls[p][k].op = "appendPrompt" => calls[p][k].arg = nextCommand[p]
          /\ \A k \in DOMAIN wrote[p] : wrote[p][k].command = nextCommand[p])
  /\ [][\A p \in Procs :
          /\ TransformStep(p) =>
               /\ (skipDiscuss[p] /\ DiscussWithNumber(nextCommand[p])) =>
                    nextCommand'[p] =
                      <<"/","g","s","d","-","p","l","a","n","-","p","h","a","s","e"," ">>
                        \o NumberOf(nextCommand[p])
               /\ (~skipDiscuss[p] \/ ~NamesDiscuss(nextCommand[p])) =>
                    nextCommand'[p] = nextCommand[p]
          /\ pc[p] \in Transformed => nextCommand'[p] \in {nextCommand[p], Null}
       ]_vars

\* /gsd-discuss-phase 12 went to appendPrompt as /gsd-plan-phase 12, the
\* submit threw, and the handoff file holds /gsd-plan-phase 12
C13_Witness ==
  \E p \in Procs :
    /\ pc[p] = "delay"
    /\ Extractions[content[p]] = WithArg(CmdDiscussPhase, <<"1", "2">>)
    /\ \E k \in DOMAIN calls[p] :
         calls[p][k] = Call("appendPrompt", "returned", WithArg(CmdPlanPhase, <<"1", "2">>))
    /\ pendingFile.command = WithArg(CmdPlanPhase, <<"1", "2">>)

\* C14: when config.confirmBeforeChain is set and the command may chain (no
\* no-chain directive in the text, not on the deny list), the handling ends
\* at the decision: it issues no host-control call, leaves the handoff file
\* and the input file as they are, sends no notification, and its outcome
\* names the command that would run.
C14_ConfirmOnly ==
  [][\A p \in Procs :
       (/\ GateStep(p)
        /\ config[p].confirmBeforeChain
        /\ IndexOf(content[p], NoChainDirective) = 0
        /\ ~DenyListed(nextCommand[p])) =>
         /\ pc'[p] = "idle"
         /\ outcome'[p] = Outcome("confirm-only", nextCommand[p])
         /\ calls'[p] = <<>>
         /\ wrote'[p] = <<>>
         /\ notified'[p] = 0
         /\ UNCHANGED fileVars
    ]_vars

\* a handling under confirmBeforeChain reported /gsd-execute-phase 08 and
\* nothing was written
C14_Witness ==
  \E p \in Procs :
    /\ config[p].confirmBeforeChain
    /\ outcome[p] = Outcome("confirm-only", WithArg(CmdExecutePhase, <<"0", "8">>))
    /\ ~pendingFile.exists
    /\ writes = 0

\* where a session.created handling stands
Creating == {"read", "unlink", "expiry", "input"}

\* where a session.idle handling stands when it issues or awaits a
\* host-control call
Chaining == {"extract", "new", "settle", "append", "submit"}

\* C15: a session.created handling issues no host-control call and sends no
\* notification; when it consumes a present, unexpired handoff it writes the
\* command to the input file, reports it and ends, writing nothing else; and
\* a host-control call is only ever added to a handling that is inside
\* session.idle.
C15_CreatedNeverSubmits ==
  /\ [](\A p \in Procs :
          pc[p] \in Creating => calls[p] = <<>> /\ wrote[p] = <<>> /\ notified[p] = 0)
  /\ [][\A p \in Procs :
          /\ pc[p] \in Creating => pc'[p] \in Creating \cup {"idle"}
          /\ (SessionCreated(p) \/ pc[p] \in Creating) => calls'[p] = <<>>
          /\ (pc[p] = "input" /\ pc'[p] = "idle" /\ outcome'[p].result # "threw") =>
               /\ inputFile' = data[p].command
               /\ outcome'[p] = Outcome("surfaced", Null)
               /\ UNCHANGED <<pendingFile, writes>>
          /\ (calls'[p] # calls[p] /\ calls'[p] # <<>>) => pc[p] \in Chaining
       ]_vars

\* a session.created handling has put /gsd-execute-phase 08, left by a
\* session.idle handling, into the input file and ended
C15_Witness ==
  \E p \in Procs :
    /\ outcome[p] = Outcome("surfaced", Null)
    /\ pc[p] = "idle"
    /\ calls[p] = <<>>
    /\ inputFile = WithArg(CmdExecutePhase, <<"0", "8">>)
    /\ ~pendingFile.exists
    /\ Len(consumed) = 1

\* C16: the configuration a session.idle handling works with is the one the
\* global configuration file gives when the signal arrives, whatever the file
\* held when the plugin was loaded or at an earlier signal.
C16_FreshPerTrigger ==
  [][\A p \in Procs :
       (\E text \in AssistantTexts : IdleText(p, text)) =>
         config[p] = loadConfig(configFile)
    ]_vars

\* the suggestions that open with a Next Up line and hold a command token
Anchored == {s \in Suggestions : s.head \in Heads /\ s.token # Null}

\* the token each of them holds, by the text the handler reads
TokenOf == [t \in {ContentOfText(s.text) : s \in Anchored} |->
              (CHOOSE s \in Anchored : ContentOfText(s.text) = t).token]

\* C17: for a text that opens a Next Up section and holds a command token in
\* it (quoted, at the start of a line, before a number, after a colon or
\* anywhere), followed or not by an explanation or further lines,
\* extractNextCommand returns that token with its number and nothing else.
C17_ExactToken ==
  [][\A p \in Procs :
       (ExtractStep(p) /\ content[p] \in DOMAIN TokenOf) =>
         nextCommand'[p] = TokenOf[content[p]]
    ]_vars

\* the texts of the model without "next up" in any letter case
Unanchored ==
  {t \in DOMAIN Extractions : IndexOf(ToLowerCase(t), NextUpLower) = 0}

\* C18: for a text without "Next Up" in any letter case, with or without
\* command tokens in it, extractNextCommand returns no command, and the
\* handling ends there: no host-control call, no write of the handoff file.
C18_NoAnchorNoCommand ==
  [][\A p \in Procs :
       (ExtractStep(p) /\ content[p] \in Unanchored) =>
         /\ pc'[p] = "idle"
         /\ outcome'[p] = Outcome("no-command", Null)
         /\ nextCommand'[p] = Null
         /\ calls'[p] = <<>>
         /\ wrote'[p] = <<>>
         /\ notified'[p] = 0
         /\ UNCHANGED fileVars
    ]_vars

\* a handling is about to extract from "## <arrow> Next Steps" followed by a
\* quoted /gsd-execute-phase 08, and extraction gives no command
C18_Witness ==
  \E p \in Procs :
    /\ pc[p] = "extract"
    /\ content[p] \in Unanchored
    /\ Includes(content[p], WithArg(CmdExecutePhase, <<"0", "8">>))
    /\ Includes(content[p], <<"N","e","x","t"," ","S","t","e","p","s">>)
    /\ Extractions[content[p]] = Null

\* where "next up" starts in `text`, in any letter case; 0 when it is not there
AnchorAt(text) == IndexOf(ToLowerCase(text), NextUpLower)

\* where a command token starts in `text`
TokenStarts(text) ==
  {k \in 1..Len(text) : MatchAtI(text, k, <<"/", "g", "s", "d", "-">>)}

\* the token starts of `text` that lie after the anchor phrase and at most
\* `window` characters after it
TokensWithin(text, window) ==
  {k \in TokenStarts(text) : k > AnchorAt(text) /\ k - AnchorAt(text) <= window}

\* the texts with the anchor phrase and no token in the window after it
NoTokenInWindow ==
  {t \in DOMAIN Extractions :
     AnchorAt(t) # 0 /\ TokensWithin(t, ProximityWindow) = {}}

\* C19 as stated: for a text with "Next Up" and no command token within 300
\* characters after it, extractNextCommand returns none.
C19_NoneOutsideWindow ==
  [][\A p \in Procs :
       (ExtractStep(p) /\ content[p] \in NoTokenInWindow) =>
         nextCommand'[p] = Null /\ outcome'[p] = Outcome("no-command", Null)
    ]_vars

\* the texts in which a Next Up section was found and no command pattern
\* matched inside it
Scanned ==
  {t \in DOMAIN Extractions :
     /\ NextUpSection(t) # NoMatch
     /\ SectionCommand(NextUpSection(t)[1]) = NoMatch}

\* the texts whose Next Up section holds the token, at each of Distances
HeldInSection == {ContentOfText(TokenInSection(n)) : n \in Distances}

\* C19, amended: the window of 300 characters belongs to the last resort.
\* When a Next Up section was found and holds no command token, the first
\* token of the whole text is returned if it starts after "Next Up" and less
\* than 300 characters after it, and otherwise none is returned: not a token
\* before the phrase, not one 300 or more characters after it. A token inside
\* the section is returned at any distance, and a text in which "Next Up"
\* opens no section gives none.
C19_WindowOfLastResort ==
  [][\A p \in Procs :
       ExtractStep(p) =>
         /\ content[p] \in Scanned =>
              IF /\ TokenStarts(content[p]) # {}
                 /\ Min(TokenStarts(content[p])) > AnchorAt(content[p])
                 /\ Min(TokenStarts(content[p])) - AnchorAt(content[p])
                      <= ProximityWindow - 1
              THEN /\ nextCommand'[p] # Null
                   /\ nextCommand'[p] =
                        SubSeq(content[p], Min(TokenStarts(content[p])),
                               Min(TokenStarts(content[p]))
                                 + Len(nextCommand'[p]) - 1)
              ELSE nextCommand'[p] = Null
         /\ content[p] \in HeldInSection =>
              nextCommand'[p] =
                <<"/","g","s","d","-","p","l","a","n","-","p","h","a","s","e"," ","3">>
         /\ (AnchorAt(content[p]) # 0 /\ NextUpSection(content[p]) = NoMatch) =>
              nextCommand'[p] = Null
    ]_vars

\* the last resort has returned the token that stands 299 characters after
\* "Next Up", beyond the end of the section
C19_Witness ==
  \E p \in Procs :
    /\ pc[p] = "skip"
    /\ content[p] = ContentOfText(TokenAfterSection(ProximityWindow - 1))
    /\ content[p] \in Scanned
    /\ nextCommand[p] = WithArg(CmdPlanPhase, <<"3">>)

\* the results of a session.idle handling that found nothing to chain
Negative ==
  {"no-session", "no-messages", "no-assistant", "no-text", "no-command",
   "ineligible"}

\* p has issued no host-control call, written nothing and notified nobody
Untouched(p) == calls[p] = <<>> /\ wrote[p] = <<>> /\ notified[p] = 0

\* C20: a session.idle handling that ends for a missing session id, an empty
\* message list, no assistant message, no text, no command or a command that
\* may not chain ends idle, having issued no host-control call and sent no
\* notification, and leaves the handoff file and the input file as they were.
C20_NegativeOutcomesFrame ==
  [][\A p \in Procs :
       /\ (/\ \/ \E messagesApi \in BOOLEAN : SessionIdle(p, FALSE, messagesApi)
               \/ pc[p] \in {"messages", "extract"}
            /\ outcome'[p].result \in Negative) =>
             /\ pc'[p] = "idle"
             /\ Untouched(p)
             /\ calls'[p] = <<>> /\ wrote'[p] = <<>> /\ notified'[p] = 0
             /\ UNCHANGED fileVars
       /\ \A messagesApi \in BOOLEAN :
            SessionIdle(p, FALSE, messagesApi) =>
              outcome'[p] = Outcome("no-session", Null)
       /\ MessagesReturn(p, <<>>) => outcome'[p] = Outcome("no-messages", Null)
       /\ MessagesReturn(p, <<Message("user", <<TextPart(TextExecute)>>)>>) =>
            outcome'[p] = Outcome("no-assistant", Null)
       /\ MessagesReturn(p, <<Message("assistant", <<ToolPart>>)>>) =>
            outcome'[p] = Outcome("no-text", Null)
       /\ \A f \in ProjectFiles :
            (Resolve(p, f) /\ IndexOf(content[p], NoChainDirective) # 0) =>
              outcome'[p].result \in {"no-command", "ineligible"}
    ]_vars

\* the only handler that ever ran left a record in the handoff file, then
\* handled a session.idle whose last assistant message had no text, and the
\* record is still there
C20_Witness ==
  \E p \in Procs :
    /\ outcome[p] = Outcome("no-text", Null)
    /\ pc[p] = "idle"
    /\ \A q \in Procs \ {p} : outcome[q] = Outcome("none", Null)
    /\ pendingFile.exists /\ pendingFile.parses
    /\ writes = 1

\* C21 as stated: a throw of session.messages, like a throw of a host-control
\* call, sends the handling to the deferral.
C21_FailureAlwaysDefers ==
  [][\A p \in Procs :
       (MessagesThrow(p) \/ NewThrow(p) \/ AppendThrow(p) \/ SubmitThrow(p)) =>
         pc'[p] \in Deferring
    ]_vars

\* C21, amended: a throw of a host-control call is caught and sends the
\* handling to storePendingCommand with its command; a throw of
\* session.messages is caught too, and ends the handling with no deferral, no
\* call and no file changed; neither reaches the host.
C21_HostCallFailure ==
  [][\A p \in Procs :
       /\ MessagesThrow(p) =>
            /\ pc'[p] = "idle"
            /\ outcome'[p] = Outcome("fetch-error", Null)
            /\ Untouched(p)
            /\ calls'[p] = <<>> /\ wrote'[p] = <<>> /\ notified'[p] = 0
            /\ UNCHANGED fileVars
       /\ (NewThrow(p) \/ AppendThrow(p) \/ SubmitThrow(p)) =>
            /\ pc'[p] = "store"
            /\ outcome'[p] = Outcome("running", Null)
            /\ Last(calls'[p]).at = "threw"
            /\ Len(calls'[p]) = Len(calls[p]) + 1
            /\ nextCommand'[p] = nextCommand[p] /\ nextCommand[p] # Null
            /\ UNCHANGED fileVars
       /\ (pc[p] \in {"messages", "new", "settle", "append", "submit"}) =>
            outcome'[p].result # "threw"
    ]_vars

\* the only signal of the run was a session.idle whose session.messages
\* threw; the handling has ended and nothing was written
C21_Witness ==
  \E p \in Procs :
    /\ outcome[p] = Outcome("fetch-error", Null)
    /\ pc[p] = "idle"
    /\ signals = 1
    /\ writes = 0
    /\ ~pendingFile.exists

Issued(p, op) ==
  Cardinality({k \in DOMAIN calls[p] :
                 calls[p][k].op = op /\ calls[p][k].at = "issued"})

\* C23: in one session.idle handling each of executeCommand, appendPrompt and
\* submitPrompt is issued at most once; once one of them has thrown the
\* handling issues no further call and never returns to the sequence; and a
\* command that was deferred reaches the input file only through the
\* session.created handling that read its record.
C23_NoRetry ==
  /\ [](\A p \in Procs :
          \A op \in {"executeCommand", "appendPrompt", "submitPrompt"} :
            Issued(p, op) <= 1)
  /\ [][/\ \A p \in Procs :
           /\ Thrown(p) # {} => calls'[p] \in {calls[p], <<>>}
           /\ pc[p] \in Deferring => pc'[p] \in Deferring \cup {"idle"}
           /\ (pc[p] \in Deferring /\ pc'[p] = "idle") =>
                outcome'[p].result \in {"deferred", "deferred-unnotified", "threw"}
        /\ consumed' # consumed =>
             \E q \in Procs :
               /\ pc[q] = "expiry" /\ pc'[q] = "input"
               /\ consumed' = Append(consumed, data[q].write)
        /\ inputFile' # inputFile =>
             \E q \in Procs :
               /\ pc[q] = "input"
               /\ inputFile' = data[q].command
               /\ \E k \in DOMAIN consumed : consumed[k] = data[q].write
       ]_vars

\* submitPrompt threw after the other two calls had returned, the handling
\* ended with its record written, and a session.created handling has put the
\* command into the input file
C23_Witness ==
  \E p \in Procs : \E q \in Procs :
    /\ outcome[p].result = "deferred"
    /\ outcome[q].result = "surfaced"
    /\ signals = 2
    /\ writes = 1
    /\ consumed = <<1>>
    /\ inputFile # Null
    /\ ~pendingFile.exists

\* C24: the handoff file is one slot and the last writer wins: a write of
\* storePendingCommand to a file that nothing has removed since the writer
\* opened it leaves in the file exactly the record of that write, its command
\* and its timestamp, whatever another deferral wrote before; and a
\* session.created that then passes its expiry test carries that command.
C24_LastWriterWins ==
  [][\A p \in Procs :
       (StoreWrite(p) /\ fd[p] = "linked") =>
         /\ pendingFile'.exists /\ pendingFile'.parses
         /\ pendingFile'.command = nextCommand[p]
         /\ pendingFile'.timestamp = stamp[p]
    ]_vars

\* C25: a record in the handoff file leaves it only when a deferral
\* overwrites it or when the session.created handling that read this very
\* record deletes it.
C25_NoSilentLoss ==
  [][(pendingFile.parses /\ pendingFile' # pendingFile) =>
       \E p \in Procs :
         \/ pc[p] = "store" /\ pc'[p] = "write"
         \/ pc[p] = "write" /\ pc'[p] = "delay"
         \/ /\ pc[p] = "unlink" /\ pc'[p] = "expiry"
            /\ data[p].write = pendingFile.write
    ]_vars

\* C26: an instance loaded with autoChain false stays idle for the whole
\* run, with no host-control call, no write and no notification; a signal for
\* it changes nothing, so a record in the handoff file stays; and every
\* change of the handoff file or the input file is a step of an instance that
\* was loaded with autoChain true.
C26_DisabledIsInert ==
  /\ [](\A p \in Procs :
          ~config[p].autoChain =>
            /\ ~hooks[p]
            /\ pc[p] = "idle"
            /\ calls[p] = <<>> /\ wrote[p] = <<>> /\ notified[p] = 0
            /\ data[p] = NoFile /\ fd[p] = "none"
            /\ outcome[p] = Outcome("none", Null))
  /\ [][/\ \A p \in Procs :
           (~config[p].autoChain /\ SignalDropped(p)) =>
             UNCHANGED <<fileVars, pc, locals, outcome>>
        /\ fileVars' # fileVars =>
             \E q \in Procs :
               /\ config[q].autoChain
               /\ pc[q] # "idle" \/ SessionCreated(q)
       ]_vars

\* the enabled instance has left a record in the handoff file and ended, a
\* signal went to the disabled instance, and the record is still there
C26_Witness ==
  \E p \in Procs :
    /\ ~config[p].autoChain
    /\ \A q \in Procs \ {p} :
         config[q].autoChain /\ outcome[q].result = "deferred" /\ pc[q] = "idle"
    /\ signals = 2
    /\ writes = 1
    /\ consumed = <<>>
    /\ pendingFile.exists /\ pendingFile.parses

====
